---- MODULE Spec2Model ----
(***************************************************************************)
(* Response normalization and tool dispatch of the Revit MCP tools          *)
(* (src/revit-mcp-python/tools).                                            *)
(*                                                                         *)
(* Python values are tagged records; a Python str is the sequence of its   *)
(* characters, so that formatting, joining, lower-casing and JSON          *)
(* serialization are computed character by character.                      *)
(***************************************************************************)
EXTENDS Integers, Sequences, FiniteSets, TLC

VARIABLES registry, inv, log, calls, trace

vars == <<registry, inv, log, calls, trace>>

(***************************************************************************)
(* Python values                                                           *)
(***************************************************************************)
PyStr(s) == [t |-> "str", s |-> s]

PyNone == [t |-> "null"]

PyInt(n) == [t |-> "int", n |-> n]

PyBool(b) == [t |-> "bool", b |-> b]

PyList(items) == [t |-> "list", items |-> items]

\* a dict is the sequence of its <<key, value>> items in insertion order
PyDict(kv) == [t |-> "dict", kv |-> kv]

\* the outcome of a call: a returned value or a raised exception
Return(v) == [o |-> "return", v |-> v]

Raise(e) == [o |-> "raise", e |-> e]

(***************************************************************************)
(* String literals of the source, as character sequences                   *)
(***************************************************************************)
K_data == <<"d", "a", "t", "a">>

K_error == <<"e", "r", "r", "o", "r">>

K_traceback == <<"t", "r", "a", "c", "e", "b", "a", "c", "k">>

K_output == <<"o", "u", "t", "p", "u", "t">>

K_status == <<"s", "t", "a", "t", "u", "s">>

K_health == <<"h", "e", "a", "l", "t", "h">>

K_api_name == <<"a", "p", "i", "_", "n", "a", "m", "e">>

K_document_title == <<"d", "o", "c", "u", "m", "e", "n", "t", "_", "t", "i", "t", "l", "e">>

HDR_ERROR == <<"=", "=", "=", " ", "E", "R", "R", "O", "R", " ", "=", "=", "=">>

PFX_ERROR == <<"E", "r", "r", "o", "r", ":", " ">>

MSG_UNKNOWN ==
    <<"U", "n", "k", "n", "o", "w", "n", " ", "e", "r", "r", "o", "r", " ",
      "o", "c", "c", "u", "r", "r", "e", "d">>

HDR_TRACEBACK == <<"\n", "=", "=", "=", " ", "T", "R", "A", "C", "E", "B", "A", "C", "K", " ", "=", "=", "=">>

HDR_STATUS == <<"=", "=", "=", " ", "R", "E", "V", "I", "T", " ", "S", "T", "A", "T", "U", "S", " ", "=", "=", "=">>

PFX_STATUS == <<"S", "t", "a", "t", "u", "s", ":", " ">>

PFX_HEALTH == <<"H", "e", "a", "l", "t", "h", ":", " ">>

PFX_API == <<"A", "P", "I", ":", " ">>

PFX_DOCUMENT == <<"D", "o", "c", "u", "m", "e", "n", "t", ":", " ">>

S_active == <<"a", "c", "t", "i", "v", "e">>

S_healthy == <<"h", "e", "a", "l", "t", "h", "y">>

NL == <<"\n">>

(***************************************************************************)
(* Python built-ins used by format_response                                *)
(***************************************************************************)
\* key in d
HasKey(d, k) == \E i \in 1..Len(d.kv) : d.kv[i][1] = k

\* d[key], for a key of d
GetItem(d, k) == d.kv[CHOOSE i \in 1..Len(d.kv) : d.kv[i][1] = k][2]

\* d.get(key, default)
Get(d, k, default) == IF HasKey(d, k) THEN GetItem(d, k) ELSE default

\* len(d)
DictLen(d) == Len(d.kv)

\* bool(v)
Truthy(v) ==
    CASE v.t = "str" -> v.s # <<>>
      [] v.t = "null" -> FALSE
      [] v.t = "int" -> v.n # 0
      [] v.t = "bool" -> v.b
      [] v.t = "list" -> v.items # <<>>
      [] v.t = "dict" -> v.kv # <<>>

\* one character of str.lower()
LowerChar(c) ==
    CASE c = "A" -> "a" [] c = "C" -> "c" [] c = "E" -> "e" [] c = "H" -> "h"
      [] c = "I" -> "i" [] c = "L" -> "l" [] c = "T" -> "t" [] c = "V" -> "v"
      [] c = "Y" -> "y" [] c = "U+00C9" -> "U+00E9"
      [] OTHER -> c

\* s.lower()
Lower(s) == [i \in 1..Len(s) |-> LowerChar(s[i])]

RECURSIVE Digits(_)
\* the decimal digits of a natural number
Digits(n) ==
    LET d == <<"0", "1", "2", "3", "4", "5", "6", "7", "8", "9">>[(n % 10) + 1]
    IN IF n < 10 THEN <<d>> ELSE Digits(n \div 10) \o <<d>>

\* str(n) of an int
IntStr(n) == IF n < 0 THEN <<"-">> \o Digits(0 - n) ELSE Digits(n)

RECURSIVE Join(_, _)
\* sep.join(parts), for parts that are all character sequences
Join(sep, parts) ==
    IF parts = <<>> THEN <<>>
    ELSE IF Len(parts) = 1 THEN parts[1]
    ELSE parts[1] \o sep \o Join(sep, Tail(parts))

\* the escaped body of repr(s) between the quote characters q
ReprBody(s, q) ==
    LET esc(c) == CASE c = "\\" -> <<"\\", "\\">>
                    [] c = "\n" -> <<"\\", "n">>
                    [] c = "\t" -> <<"\\", "t">>
                    [] c = q -> <<"\\", q>>
                    [] OTHER -> <<c>>
    IN Join(<<>>, [i \in 1..Len(s) |-> esc(s[i])])

\* repr(s) of a str: single quotes unless s holds ' and no "
StrRepr(s) ==
    LET hasS == \E i \in 1..Len(s) : s[i] = "'"
        hasD == \E i \in 1..Len(s) : s[i] = "\""
    IN IF hasS /\ ~hasD THEN <<"\"">> \o ReprBody(s, "\"") \o <<"\"">>
       ELSE <<"'">> \o ReprBody(s, "'") \o <<"'">>

RECURSIVE py_repr(_)
\* repr(v)
py_repr(v) ==
    CASE v.t = "str" -> StrRepr(v.s)
      [] v.t = "null" -> <<"N", "o", "n", "e">>
      [] v.t = "int" -> IntStr(v.n)
      [] v.t = "bool" -> IF v.b THEN <<"T", "r", "u", "e">> ELSE <<"F", "a", "l", "s", "e">>
      [] v.t = "list" ->
           <<"[">> \o Join(<<",", " ">>, [i \in 1..Len(v.items) |-> py_repr(v.items[i])]) \o <<"]">>
      [] v.t = "dict" ->
           <<"{">> \o Join(<<",", " ">>,
                          [i \in 1..Len(v.kv) |->
                              StrRepr(v.kv[i][1]) \o <<":", " ">> \o py_repr(v.kv[i][2])])
                  \o <<"}">>

\* str(v), which is also "{}".format(v)
py_str(v) == IF v.t = "str" THEN v.s ELSE py_repr(v)

(***************************************************************************)
(* json.dumps(obj, indent=2, ensure_ascii=False, default=str)              *)
(***************************************************************************)
INDENT == 2

\* the JSON string literal of s: ensure_ascii=False escapes only the quote,
\* the backslash and the control characters
JsonString(s) ==
    LET esc(c) == CASE c = "\"" -> <<"\\", "\"">>
                    [] c = "\\" -> <<"\\", "\\">>
                    [] c = "\n" -> <<"\\", "n">>
                    [] c = "\t" -> <<"\\", "t">>
                    [] OTHER -> <<c>>
    IN <<"\"">> \o Join(<<>>, [i \in 1..Len(s) |-> esc(s[i])]) \o <<"\"">>

\* the newline and indentation that open a line at nesting depth level
NewlineIndent(level) == NL \o [i \in 1..(INDENT * level) |-> " "]

RECURSIVE JsonEncode(_, _)
\* the encoder's text of v, nested at depth level
JsonEncode(v, level) ==
    CASE v.t = "str" -> JsonString(v.s)
      [] v.t = "null" -> <<"n", "u", "l", "l">>
      [] v.t = "int" -> IntStr(v.n)
      [] v.t = "bool" -> IF v.b THEN <<"t", "r", "u", "e">> ELSE <<"f", "a", "l", "s", "e">>
      [] v.t = "list" ->
           IF v.items = <<>> THEN <<"[", "]">>
           ELSE <<"[">> \o NewlineIndent(level + 1)
                \o Join(<<",">> \o NewlineIndent(level + 1),
                        [i \in 1..Len(v.items) |-> JsonEncode(v.items[i], level + 1)])
                \o NewlineIndent(level) \o <<"]">>
      [] v.t = "dict" ->
           IF v.kv = <<>> THEN <<"{", "}">>
           ELSE <<"{">> \o NewlineIndent(level + 1)
                \o Join(<<",">> \o NewlineIndent(level + 1),
                        [i \in 1..Len(v.kv) |->
                            JsonString(v.kv[i][1]) \o <<":", " ">>
                                \o JsonEncode(v.kv[i][2], level + 1)])
                \o NewlineIndent(level) \o <<"}">>

json_dumps(obj) == JsonEncode(obj, 0)

(***************************************************************************)
(* format_response (utils.py)                                              *)
(***************************************************************************)
\* "\n".join(parts) of a list of values: TypeError unless every part is a str
JoinLines(parts) ==
    IF \E i \in 1..Len(parts) : parts[i].t # "str" THEN Raise("TypeError")
    ELSE Return(PyStr(Join(NL, [i \in 1..Len(parts) |-> parts[i].s])))

\* IsEnvelope, were the number of sibling keys not looked at
IsEnvelope_any_size(response) ==
    HasKey(response, K_data) /\ GetItem(response, K_data).t = "dict"

\* the envelope test of the "data" key
IsEnvelope(response) ==
    /\ HasKey(response, K_data)
    /\ GetItem(response, K_data).t = "dict"
    /\ DictLen(response) <= 2

\* unwrap, were the envelope recognised only when "data" is the sole key
unwrap_sole_key(response) ==
    IF IsEnvelope(response) /\ DictLen(response) <= 1 THEN GetItem(response, K_data)
    ELSE response

\* unwrap, were the envelope test repeated on the inner mapping
unwrap_nested(response) ==
    LET once == IF IsEnvelope(response) THEN GetItem(response, K_data) ELSE response
    IN IF IsEnvelope(once) THEN GetItem(once, K_data) ELSE once

\* the working value after the envelope unwrap
unwrap(response) == IF IsEnvelope(response) THEN GetItem(response, K_data) ELSE response

\* the report of a mapping with an "error" key
error_report(response) ==
    LET error_msg == Get(response, K_error, PyStr(MSG_UNKNOWN))
        traceback_info == Get(response, K_traceback, PyStr(<<>>))
        error_parts == <<PyStr(HDR_ERROR), PyStr(PFX_ERROR \o py_str(error_msg))>>
    IN IF Truthy(traceback_info)
       THEN JoinLines(error_parts \o <<PyStr(HDR_TRACEBACK), traceback_info>>)
       ELSE JoinLines(error_parts)

\* status_report, were the lower-cased status and health printed
status_report_lowered(response) ==
    LET lowered(k) == PyStr(Lower(Get(response, k, PyStr(<<>>)).s))
        status_parts ==
            <<PyStr(HDR_STATUS),
              PyStr(PFX_STATUS \o py_str(lowered(K_status))),
              PyStr(PFX_HEALTH \o py_str(lowered(K_health)))>>
            \o (IF HasKey(response, K_api_name)
                THEN <<PyStr(PFX_API \o py_str(GetItem(response, K_api_name)))>>
                ELSE <<>>)
            \o (IF HasKey(response, K_document_title)
                THEN <<PyStr(PFX_DOCUMENT \o py_str(GetItem(response, K_document_title)))>>
                ELSE <<>>)
    IN JoinLines(status_parts)

\* the report of an active and healthy status response
status_report(response) ==
    LET unknown == PyStr(<<"U", "n", "k", "n", "o", "w", "n">>)
        status_parts ==
            <<PyStr(HDR_STATUS),
              PyStr(PFX_STATUS \o py_str(Get(response, K_status, unknown))),
              PyStr(PFX_HEALTH \o py_str(Get(response, K_health, unknown)))>>
            \o (IF HasKey(response, K_api_name)
                THEN <<PyStr(PFX_API \o py_str(GetItem(response, K_api_name)))>>
                ELSE <<>>)
            \o (IF HasKey(response, K_document_title)
                THEN <<PyStr(PFX_DOCUMENT \o py_str(GetItem(response, K_document_title)))>>
                ELSE <<>>)
    IN JoinLines(status_parts)

\* the rules applied to the working mapping, once unwrapped
format_rules(response) ==
    IF HasKey(response, K_error) THEN error_report(response)
    ELSE
      LET st == Get(response, K_status, PyStr(<<>>))
          he == Get(response, K_health, PyStr(<<>>))
      IN \* .lower() of a value that is no str raises, before any later rule
         IF st.t # "str" \/ he.t # "str" THEN Raise("AttributeError")
         ELSE IF HasKey(response, K_output) THEN Return(GetItem(response, K_output))
         ELSE IF Lower(st.s) = S_active /\ Lower(he.s) = S_healthy
              THEN status_report(response)
         ELSE Return(PyStr(json_dumps(response)))

\* format_response, were a response that is no mapping serialized as JSON
format_response_dumps_all(response) ==
    IF response.t # "dict" THEN Return(PyStr(json_dumps(response)))
    ELSE format_rules(unwrap(response))

format_response(response) ==
    IF response.t # "dict" THEN Return(PyStr(py_str(response)))
    ELSE format_rules(unwrap(response))

(***************************************************************************)
(* json.loads, the parser that reads the fallback serialization back       *)
(***************************************************************************)
\* a failed parse (json.JSONDecodeError)
NoParse == [ok |-> FALSE]

\* a parsed value and the position after it
Parsed(v, pos) == [ok |-> TRUE, v |-> v, pos |-> pos]

\* the character at pos, or "" past the end
At(text, pos) == IF pos <= Len(text) THEN text[pos] ELSE ""

IsDigit(c) == c \in {"0", "1", "2", "3", "4", "5", "6", "7", "8", "9"}

DigitVal(c) == CHOOSE d \in 0..9 : Digits(d) = <<c>>

RECURSIVE SkipWs(_, _)
\* the position of the first character at or after pos that is no whitespace
SkipWs(text, pos) ==
    IF At(text, pos) \in {" ", "\n", "\t", "\r"} THEN SkipWs(text, pos + 1) ELSE pos

RECURSIVE ScanString(_, _, _)
\* the string whose opening quote precedes pos, acc being what was read of it
ScanString(text, pos, acc) ==
    LET c == At(text, pos)
        e == At(text, pos + 1)
    IN CASE c = "" -> NoParse
         [] c = "\"" -> Parsed(acc, pos + 1)
         [] c \in {"\n", "\t", "\r"} -> NoParse
         [] c = "\\" ->
              CASE e = "\"" -> ScanString(text, pos + 2, Append(acc, "\""))
                [] e = "\\" -> ScanString(text, pos + 2, Append(acc, "\\"))
                [] e = "/" -> ScanString(text, pos + 2, Append(acc, "/"))
                [] e = "n" -> ScanString(text, pos + 2, Append(acc, "\n"))
                [] e = "t" -> ScanString(text, pos + 2, Append(acc, "\t"))
                [] e = "r" -> ScanString(text, pos + 2, Append(acc, "\r"))
                [] OTHER -> NoParse
         [] OTHER -> ScanString(text, pos + 1, Append(acc, c))

RECURSIVE ScanDigits(_, _, _)
\* the number whose digits start at pos, acc being the value read so far
ScanDigits(text, pos, acc) ==
    IF IsDigit(At(text, pos))
    THEN ScanDigits(text, pos + 1, 10 * acc + DigitVal(At(text, pos)))
    ELSE [n |-> acc, pos |-> pos]

\* an integer literal at pos: -?(0|[1-9][0-9]*)
ScanNumber(text, pos) ==
    LET neg == At(text, pos) = "-"
        start == IF neg THEN pos + 1 ELSE pos
        r == IF At(text, start) = "0" THEN [n |-> 0, pos |-> start + 1]
             ELSE ScanDigits(text, start, 0)
    IN IF ~IsDigit(At(text, start)) THEN NoParse
       ELSE Parsed(PyInt(IF neg THEN 0 - r.n ELSE r.n), r.pos)

\* whether text holds the word w at pos
Holds(text, pos, w) ==
    /\ pos + Len(w) - 1 <= Len(text)
    /\ \A i \in 1..Len(w) : text[pos + i - 1] = w[i]

\* d[k] = v on the items kv of a dict
SetItem(kv, k, v) ==
    IF \E i \in 1..Len(kv) : kv[i][1] = k
    THEN [i \in 1..Len(kv) |-> IF kv[i][1] = k THEN <<k, v>> ELSE kv[i]]
    ELSE Append(kv, <<k, v>>)

RECURSIVE ScanValue(_, _)
RECURSIVE ScanArray(_, _, _)
RECURSIVE ScanObject(_, _, _)

\* the value that starts at pos
ScanValue(text, pos) ==
    LET c == At(text, pos)
    IN CASE c = "\"" ->
              LET r == ScanString(text, pos + 1, <<>>)
              IN IF r.ok THEN Parsed(PyStr(r.v), r.pos) ELSE NoParse
         [] c = "{" ->
              LET p == SkipWs(text, pos + 1)
              IN IF At(text, p) = "}" THEN Parsed(PyDict(<<>>), p + 1)
                 ELSE ScanObject(text, p, <<>>)
         [] c = "[" ->
              LET p == SkipWs(text, pos + 1)
              IN IF At(text, p) = "]" THEN Parsed(PyList(<<>>), p + 1)
                 ELSE ScanArray(text, p, <<>>)
         [] c = "n" /\ Holds(text, pos, <<"n", "u", "l", "l">>) -> Parsed(PyNone, pos + 4)
         [] c = "t" /\ Holds(text, pos, <<"t", "r", "u", "e">>) -> Parsed(PyBool(TRUE), pos + 4)
         [] c = "f" /\ Holds(text, pos, <<"f", "a", "l", "s", "e">>) ->
              Parsed(PyBool(FALSE), pos + 5)
         [] OTHER -> ScanNumber(text, pos)

\* the items of an array from pos on, acc being the items read so far
ScanArray(text, pos, acc) ==
    LET r == ScanValue(text, pos)
        p == IF r.ok THEN SkipWs(text, r.pos) ELSE 0
    IN IF ~r.ok THEN NoParse
       ELSE CASE At(text, p) = "]" -> Parsed(PyList(Append(acc, r.v)), p + 1)
              [] At(text, p) = "," -> ScanArray(text, SkipWs(text, p + 1), Append(acc, r.v))
              [] OTHER -> NoParse

\* the members of an object from pos on, acc being the items read so far
ScanObject(text, pos, acc) ==
    LET k == IF At(text, pos) = "\"" THEN ScanString(text, pos + 1, <<>>) ELSE NoParse
        c == IF k.ok THEN SkipWs(text, k.pos) ELSE 0
        r == IF k.ok /\ At(text, c) = ":" THEN ScanValue(text, SkipWs(text, c + 1))
             ELSE NoParse
        p == IF r.ok THEN SkipWs(text, r.pos) ELSE 0
    IN IF ~r.ok THEN NoParse
       ELSE CASE At(text, p) = "}" -> Parsed(PyDict(SetItem(acc, k.v, r.v)), p + 1)
              [] At(text, p) = "," ->
                   ScanObject(text, SkipWs(text, p + 1), SetItem(acc, k.v, r.v))
              [] OTHER -> NoParse

\* json.loads(text): the value, or JSONDecodeError
json_loads(text) ==
    LET r == ScanValue(text, SkipWs(text, 1))
    IN IF r.ok /\ SkipWs(text, r.pos) = Len(text) + 1 THEN Return(r.v)
       ELSE Raise("JSONDecodeError")

(***************************************************************************)
(* The registered tools (tools/*.py) and the shape of their handlers       *)
(***************************************************************************)
StatusTools == {"get_revit_status", "get_revit_model_info"}

FamilyTools ==
    {"place_family", "place_workplane_families", "list_families", "list_family_categories"}

CodeExecutionTools == {"execute_revit_code"}

SelectionTools ==
    {"get_active_selection", "inspect_selected_element", "inspect_element",
     "get_link_status", "quick_count"}

ParameterTools ==
    {"get_element_parameter", "set_element_parameter", "get_all_parameters",
     "set_parameters_bulk", "set_parameters_multi_elements"}

IfcTools == {"query_ifc_elements", "get_ifc_element_properties"}

ModificationTools ==
    {"batch_update", "create_sheet", "place_view_on_sheet", "create_walls_at_lines",
     "batch_family_placement", "place_workplane_windows", "coordinate_converter"}

Tools ==
    StatusTools \cup FamilyTools \cup CodeExecutionTools \cup SelectionTools
        \cup ParameterTools \cup IfcTools \cup ModificationTools

\* the transport function a handler awaits: revit_get or revit_post
Verb(tool) ==
    IF tool \in StatusTools
           \cup {"list_families", "list_family_categories", "get_active_selection",
                 "inspect_selected_element", "inspect_element", "get_link_status"}
    THEN "revit_get" ELSE "revit_post"

\* the timeout a handler passes, in seconds; 0 when it passes none
Timeout(tool) ==
    CASE tool = "get_revit_status" -> 10
      [] tool = "execute_revit_code" -> 60
      [] tool \in {"place_workplane_families", "place_workplane_windows"} -> 120
      [] OTHER -> 0

\* whether the handler calls ctx.info before the transport call when ctx is given
LogsInfo(tool) ==
    tool \notin StatusTools \cup {"place_family", "list_families", "list_family_categories"}

\* whether the handler's body is inside try/except
HasTry(tool) == tool \in CodeExecutionTools

\* the exception types of an except clause
CaughtTypes == {"ConnectionError", "ValueError", "RuntimeError"}

\* whether the except clause of tool's handler catches an exception of type e
Catches(tool, e) == HasTry(tool) /\ e \in CaughtTypes

ERR_EXEC ==
    <<"E", "r", "r", "o", "r", " ", "d", "u", "r", "i", "n", "g", " ", "c", "o", "d", "e", " ",
      "e", "x", "e", "c", "u", "t", "i", "o", "n", ":", " ">>

(***************************************************************************)
(* The arguments of the handlers and the requests they build               *)
(***************************************************************************)
\* a Python float, by its repr
PyFloat(f) == [t |-> "float", f |-> f]

\* a handler without parameters other than ctx
NoArgs == [none |-> PyNone]

\* a revit_get call without params
NoParams == [t |-> "absent"]

S_Door == <<"D", "o", "o", "r">>

S_T1 == <<"T", "1">>

S_L1 == <<"L", "1">>

S_Walls == <<"W", "a", "l", "l", "s">>

S_Ext == <<"E", "x", "t">>

S_Demo == <<"D", "e", "m", "o">>

S_Mark == <<"M", "a", "r", "k">>

S_A101 == <<"A", "1", "0", "1">>

S_code == <<"x", " ", "=", " ", "1">>

S_Code_execution == <<"C", "o", "d", "e", " ", "e", "x", "e", "c", "u", "t", "i", "o", "n">>

S_New_Sheet == <<"N", "e", "w", " ", "S", "h", "e", "e", "t">>

S_mm == <<"m", "m">>

S_ft == <<"f", "t">>

S_internal == <<"i", "n", "t", "e", "r", "n", "a", "l">>

S_survey == <<"s", "u", "r", "v", "e", "y">>

D_Mark == PyDict(<< <<S_Mark, PyStr(S_A101)>> >>)

L_placements == PyList(<<PyDict(<< <<S_Mark, PyInt(1)>> >>)>>)

L_ids == PyList(<<PyInt(7), PyInt(8)>>)

EmptyStr == PyStr(<<>>)

EmptyList == PyList(<<>>)

EmptyDict == PyDict(<<>>)

\* the declared defaults of the optional parameters of tool's handler
Defaults(tool) ==
    CASE tool = "place_family" ->
           [type_name |-> PyNone, x |-> PyFloat("0.0"), y |-> PyFloat("0.0"),
            z |-> PyFloat("0.0"), rotation |-> PyFloat("0.0"), level_name |-> PyNone,
            properties |-> PyNone]
      [] tool = "list_families" -> [contains |-> PyNone, limit |-> PyInt(50)]
      [] tool = "execute_revit_code" ->
           [description |-> PyStr(S_Code_execution), use_transaction |-> PyBool(TRUE)]
      [] tool = "inspect_selected_element" -> [index |-> PyInt(0)]
      [] tool = "quick_count" ->
           [type_contains |-> PyNone, type_excludes |-> PyNone, level |-> PyNone,
            in_view |-> PyBool(FALSE)]
      [] tool = "get_all_parameters" ->
           [include_empty |-> PyBool(FALSE), include_readonly |-> PyBool(TRUE)]
      [] tool = "query_ifc_elements" ->
           [link_name |-> EmptyStr, category |-> EmptyStr, ifc_class |-> EmptyStr,
            parameter_name |-> EmptyStr, parameter_value |-> EmptyStr,
            max_results |-> PyInt(100)]
      [] tool = "create_sheet" ->
           [sheet_name |-> PyStr(S_New_Sheet), title_block_name |-> EmptyStr]
      [] tool = "place_view_on_sheet" ->
           [sheet_id |-> PyInt(0), view_id |-> PyInt(0), sheet_number |-> EmptyStr,
            view_name |-> EmptyStr, x |-> PyFloat("1.0"), y |-> PyFloat("0.75")]
      [] tool = "create_walls_at_lines" ->
           [line_ids |-> PyNone, lines |-> PyNone, wall_type_name |-> EmptyStr,
            level_name |-> EmptyStr, height |-> PyInt(3000), structural |-> PyBool(FALSE)]
      [] tool = "batch_family_placement" -> [type_name |-> EmptyStr, level_name |-> EmptyStr]
      [] tool = "coordinate_converter" ->
           [z |-> PyInt(0), from_unit |-> PyStr(S_mm), to_unit |-> PyStr(S_mm),
            from_system |-> PyStr(S_internal), to_system |-> PyStr(S_internal)]
      [] OTHER -> NoArgs

\* the arguments a handler can be called with: each optional parameter at its
\* default or supplied, each required parameter supplied
Arguments(tool) ==
    LET D == Defaults(tool)
    IN CASE tool = "place_family" ->
              {[family_name |-> PyStr(S_Door), type_name |-> tn, x |-> x, y |-> D.y, z |-> D.z,
                rotation |-> D.rotation, level_name |-> ln, properties |-> pr] :
                  tn \in {D.type_name, PyStr(S_T1)}, x \in {D.x, PyFloat("1.5")},
                  ln \in {D.level_name, PyStr(S_L1)},
                  pr \in {D.properties, EmptyDict, D_Mark}}
         [] tool \in {"place_workplane_families", "place_workplane_windows"} ->
              {[symbol_id |-> PyInt(7), placements |-> pl] : pl \in {EmptyList, L_placements}}
         [] tool = "list_families" ->
              {[contains |-> c, limit |-> l] :
                  c \in {D.contains, EmptyStr, PyStr(S_Door)},
                  l \in {D.limit, PyInt(10), PyInt(0)}}
         [] tool = "execute_revit_code" ->
              {[code |-> PyStr(S_code), description |-> d, use_transaction |-> u] :
                  d \in {D.description, PyStr(S_Door)},
                  u \in {D.use_transaction, PyBool(FALSE)}}
         [] tool = "inspect_selected_element" -> {[index |-> n] : n \in {D.index, PyInt(12)}}
         [] tool = "inspect_element" -> {[element_id |-> PyInt(7)], [element_id |-> PyInt(-3)]}
         [] tool = "quick_count" ->
              {[category |-> PyStr(S_Walls), type_contains |-> tc, type_excludes |-> te,
                level |-> lv, in_view |-> iv] :
                  tc \in {D.type_contains, PyStr(S_Ext)},
                  te \in {D.type_excludes, EmptyList, PyList(<<PyStr(S_Demo)>>)},
                  lv \in {D.level, PyStr(S_L1)}, iv \in {D.in_view, PyBool(TRUE)}}
         [] tool = "get_element_parameter" ->
              {[element_id |-> PyInt(7), parameter_name |-> PyStr(S_Mark)]}
         [] tool = "set_element_parameter" ->
              {[element_id |-> PyInt(7), parameter_name |-> PyStr(S_Mark), value |-> v] :
                  v \in {PyStr(S_A101), PyInt(5)}}
         [] tool = "get_all_parameters" ->
              {[element_id |-> PyInt(7), include_empty |-> ie, include_readonly |-> ir] :
                  ie \in {D.include_empty, PyBool(TRUE)},
                  ir \in {D.include_readonly, PyBool(FALSE)}}
         [] tool = "set_parameters_bulk" ->
              {[element_id |-> PyInt(7), parameters |-> p] : p \in {EmptyDict, D_Mark}}
         [] tool = "set_parameters_multi_elements" ->
              {[element_ids |-> ids, parameters |-> D_Mark] : ids \in {EmptyList, L_ids}}
         [] tool = "query_ifc_elements" ->
              {[link_name |-> D.link_name, category |-> c, ifc_class |-> D.ifc_class,
                parameter_name |-> pn, parameter_value |-> pv, max_results |-> mr] :
                  c \in {D.category, PyStr(S_Walls)}, pn \in {D.parameter_name, PyStr(S_Mark)},
                  pv \in {D.parameter_value, PyStr(S_A101)},
                  mr \in {D.max_results, PyInt(10)}}
         [] tool = "get_ifc_element_properties" ->
              {[link_instance_id |-> PyInt(8), element_id |-> PyInt(7)]}
         [] tool = "batch_update" -> {[updates |-> u] : u \in {EmptyList, L_placements}}
         [] tool = "create_sheet" ->
              {[sheet_number |-> PyStr(S_A101), sheet_name |-> sn, title_block_name |-> tb] :
                  sn \in {D.sheet_name, PyStr(S_L1)},
                  tb \in {D.title_block_name, PyStr(S_T1)}}
         [] tool = "place_view_on_sheet" ->
              {[sheet_id |-> si, view_id |-> vi, sheet_number |-> sn, view_name |-> vn,
                x |-> x, y |-> D.y] :
                  si \in {D.sheet_id, PyInt(7)}, vi \in {D.view_id, PyInt(8)},
                  sn \in {D.sheet_number, PyStr(S_A101)}, vn \in {D.view_name, PyStr(S_L1)},
                  x \in {D.x, PyFloat("0.5")}}
         [] tool = "create_walls_at_lines" ->
              {[line_ids |-> li, lines |-> ls, wall_type_name |-> wt, level_name |-> ln,
                height |-> D.height, structural |-> st] :
                  li \in {D.line_ids, EmptyList, L_ids}, ls \in {D.lines, L_placements},
                  wt \in {D.wall_type_name, PyStr(S_T1)}, ln \in {D.level_name, PyStr(S_L1)},
                  st \in {D.structural, PyBool(TRUE)}}
         [] tool = "batch_family_placement" ->
              {[family_name |-> PyStr(S_Door), placements |-> L_placements, type_name |-> tn,
                level_name |-> ln] :
                  tn \in {D.type_name, PyStr(S_T1)}, ln \in {D.level_name, PyStr(S_L1)}}
         [] tool = "coordinate_converter" ->
              {[x |-> PyFloat("1.5"), y |-> PyFloat("2.5"), z |-> z, from_unit |-> fu,
                to_unit |-> D.to_unit, from_system |-> D.from_system, to_system |-> ts] :
                  z \in {D.z, PyFloat("3.5")}, fu \in {D.from_unit, PyStr(S_ft)},
                  ts \in {D.to_system, PyStr(S_survey)}}
         [] OTHER -> {NoArgs}

\* Python's "v or alt"
Or(v, alt) == IF Truthy(v) THEN v ELSE alt

\* "if v: data[k] = v": the item added to the dict, if any
SetIf(k, v) == IF Truthy(v) THEN << <<k, v>> >> ELSE <<>>

\* Payload, were the requests numbered by a counter the handlers share
Payload_numbered(tool, a) ==
    PyDict(<< <<<<"s", "e", "q">>,
                PyInt(Cardinality({j \in DOMAIN inv : inv[j].pc # "idle"}))>> >>)

\* the payload (revit_post) or params (revit_get) the handler of tool builds
\* from its arguments a
Payload(tool, a) ==
    CASE tool = "place_family" ->
           PyDict(<< <<<<"f", "a", "m", "i", "l", "y", "_", "n", "a", "m", "e">>, a.family_name>>,
                     <<<<"t", "y", "p", "e", "_", "n", "a", "m", "e">>, a.type_name>>,
                     <<<<"l", "o", "c", "a", "t", "i", "o", "n">>,
                       PyDict(<< <<<<"x">>, a.x>>, <<<<"y">>, a.y>>, <<<<"z">>, a.z>> >>)>>,
                     <<<<"r", "o", "t", "a", "t", "i", "o", "n">>, a.rotation>>,
                     <<<<"l", "e", "v", "e", "l", "_", "n", "a", "m", "e">>, a.level_name>>,
                     <<<<"p", "r", "o", "p", "e", "r", "t", "i", "e", "s">>, Or(a.properties,
                           EmptyDict)>> >>)
      [] tool \in {"place_workplane_families", "place_workplane_windows"} ->
           PyDict(<< <<<<"s", "y", "m", "b", "o", "l", "_", "i", "d">>, a.symbol_id>>, <<<<"p",
                 "l", "a", "c", "e", "m", "e", "n", "t", "s">>, a.placements>> >>)
      [] tool = "list_families" ->
           PyDict(SetIf(<<"c", "o", "n", "t", "a", "i", "n", "s">>, a.contains)
                  \o IF a.limit # PyInt(50)
                     THEN << <<<<"l", "i", "m", "i", "t">>, PyStr(py_str(a.limit))>> >> ELSE <<>>)
      [] tool = "execute_revit_code" ->
           PyDict(<< <<<<"c", "o", "d", "e">>, a.code>>, <<<<"d", "e", "s", "c", "r", "i", "p",
                 "t", "i", "o", "n">>, a.description>>,
                     <<<<"u", "s", "e", "_", "t", "r", "a", "n", "s", "a", "c", "t", "i", "o",
                           "n">>, a.use_transaction>> >>)
      [] tool = "quick_count" ->
           PyDict(<< <<<<"c", "a", "t", "e", "g", "o", "r", "y">>, a.category>>, <<<<"i", "n", "_",
                 "v", "i", "e", "w">>, a.in_view>> >>
                  \o SetIf(<<"t", "y", "p", "e", "_", "c", "o", "n", "t", "a", "i", "n", "s">>,
                        a.type_contains)
                  \o SetIf(<<"t", "y", "p", "e", "_", "e", "x", "c", "l", "u", "d", "e", "s">>,
                        a.type_excludes)
                  \o SetIf(<<"l", "e", "v", "e", "l">>, a.level))
      [] tool = "get_element_parameter" ->
           PyDict(<< <<<<"e", "l", "e", "m", "e", "n", "t", "_", "i", "d">>, a.element_id>>,
                     <<<<"p", "a", "r", "a", "m", "e", "t", "e", "r", "_", "n", "a", "m", "e">>,
                           a.parameter_name>> >>)
      [] tool = "set_element_parameter" ->
           PyDict(<< <<<<"e", "l", "e", "m", "e", "n", "t", "_", "i", "d">>, a.element_id>>,
                     <<<<"p", "a", "r", "a", "m", "e", "t", "e", "r", "_", "n", "a", "m", "e">>,
                           a.parameter_name>>, <<<<"v", "a", "l", "u", "e">>, a.value>> >>)
      [] tool = "get_all_parameters" ->
           PyDict(<< <<<<"e", "l", "e", "m", "e", "n", "t", "_", "i", "d">>, a.element_id>>,
                     <<<<"i", "n", "c", "l", "u", "d", "e", "_", "e", "m", "p", "t", "y">>,
                           a.include_empty>>,
                     <<<<"i", "n", "c", "l", "u", "d", "e", "_", "r", "e", "a", "d", "o", "n", "l",
                           "y">>, a.include_readonly>> >>)
      [] tool = "set_parameters_bulk" ->
           PyDict(<< <<<<"e", "l", "e", "m", "e", "n", "t", "_", "i", "d">>, a.element_id>>,
                 <<<<"p", "a", "r", "a", "m", "e", "t", "e", "r", "s">>, a.parameters>> >>)
      [] tool = "set_parameters_multi_elements" ->
           PyDict(<< <<<<"e", "l", "e", "m", "e", "n", "t", "_", "i", "d", "s">>, a.element_ids>>,
                 <<<<"p", "a", "r", "a", "m", "e", "t", "e", "r", "s">>, a.parameters>> >>)
      [] tool = "query_ifc_elements" ->
           PyDict(<< <<<<"l", "i", "n", "k", "_", "n", "a", "m", "e">>, a.link_name>>, <<<<"c",
                 "a", "t", "e", "g", "o", "r", "y">>, a.category>>,
                     <<<<"i", "f", "c", "_", "c", "l", "a", "s", "s">>, a.ifc_class>>,
                     <<<<"p", "a", "r", "a", "m", "e", "t", "e", "r", "_", "n", "a", "m", "e">>,
                           a.parameter_name>>,
                     <<<<"p", "a", "r", "a", "m", "e", "t", "e", "r", "_", "v", "a", "l", "u",
                           "e">>, a.parameter_value>>,
                     <<<<"m", "a", "x", "_", "r", "e", "s", "u", "l", "t", "s">>,
                           a.max_results>> >>)
      [] tool = "get_ifc_element_properties" ->
           PyDict(<< <<<<"l", "i", "n", "k", "_", "i", "n", "s", "t", "a", "n", "c", "e", "_", "i",
                 "d">>, a.link_instance_id>>,
                     <<<<"e", "l", "e", "m", "e", "n", "t", "_", "i", "d">>, a.element_id>> >>)
      [] tool = "batch_update" -> PyDict(<< <<<<"u", "p", "d", "a", "t", "e", "s">>, a.updates>> >>)
      [] tool = "create_sheet" ->
           PyDict(<< <<<<"s", "h", "e", "e", "t", "_", "n", "u", "m", "b", "e", "r">>,
                 a.sheet_number>>, <<<<"s", "h", "e", "e", "t", "_", "n", "a", "m", "e">>,
                 a.sheet_name>> >>
                  \o SetIf(<<"t", "i", "t", "l", "e", "_", "b", "l", "o", "c", "k", "_", "n", "a",
                        "m", "e">>, a.title_block_name))
      [] tool = "place_view_on_sheet" ->
           PyDict(<< <<<<"x">>, a.x>>, <<<<"y">>, a.y>> >>
                  \o SetIf(<<"s", "h", "e", "e", "t", "_", "i", "d">>, a.sheet_id)
                  \o SetIf(<<"v", "i", "e", "w", "_", "i", "d">>, a.view_id)
                  \o SetIf(<<"s", "h", "e", "e", "t", "_", "n", "u", "m", "b", "e", "r">>,
                        a.sheet_number)
                  \o SetIf(<<"v", "i", "e", "w", "_", "n", "a", "m", "e">>, a.view_name))
      [] tool = "create_walls_at_lines" ->
           PyDict(<< <<<<"l", "i", "n", "e", "_", "i", "d", "s">>, Or(a.line_ids, EmptyList)>>,
                     <<<<"l", "i", "n", "e", "s">>, Or(a.lines, EmptyList)>>,
                     <<<<"h", "e", "i", "g", "h", "t">>, a.height>>, <<<<"s", "t", "r", "u", "c",
                           "t", "u", "r", "a", "l">>, a.structural>> >>
                  \o SetIf(<<"w", "a", "l", "l", "_", "t", "y", "p", "e", "_", "n", "a", "m",
                        "e">>, a.wall_type_name)
                  \o SetIf(<<"l", "e", "v", "e", "l", "_", "n", "a", "m", "e">>, a.level_name))
      [] tool = "batch_family_placement" ->
           PyDict(<< <<<<"f", "a", "m", "i", "l", "y", "_", "n", "a", "m", "e">>, a.family_name>>,
                 <<<<"p", "l", "a", "c", "e", "m", "e", "n", "t", "s">>, a.placements>> >>
                  \o SetIf(<<"t", "y", "p", "e", "_", "n", "a", "m", "e">>, a.type_name)
                  \o SetIf(<<"l", "e", "v", "e", "l", "_", "n", "a", "m", "e">>, a.level_name))
      [] tool = "coordinate_converter" ->
           PyDict(<< <<<<"c", "o", "o", "r", "d", "i", "n", "a", "t", "e", "s">>,
                       PyDict(<< <<<<"x">>, a.x>>, <<<<"y">>, a.y>>, <<<<"z">>, a.z>> >>)>>,
                     <<<<"f", "r", "o", "m", "_", "u", "n", "i", "t">>, a.from_unit>>, <<<<"t",
                           "o", "_", "u", "n", "i", "t">>, a.to_unit>>,
                     <<<<"f", "r", "o", "m", "_", "s", "y", "s", "t", "e", "m">>, a.from_system>>,
                           <<<<"t", "o", "_", "s", "y", "s", "t", "e", "m">>, a.to_system>> >>)
      [] OTHER -> NoParams

\* the endpoint path the handler of tool passes to the transport function
Path(tool, a) ==
    CASE tool = "get_revit_status" -> <<"/", "s", "t", "a", "t", "u", "s", "/">>
      [] tool = "get_revit_model_info" -> <<"/", "m", "o", "d", "e", "l", "_", "i", "n", "f", "o",
            "/">>
      [] tool = "place_family" -> <<"/", "p", "l", "a", "c", "e", "_", "f", "a", "m", "i", "l",
            "y", "/">>
      [] tool = "place_workplane_families" -> <<"/", "p", "l", "a", "c", "e", "_", "w", "o", "r",
            "k", "p", "l", "a", "n", "e", "_", "f", "a", "m", "i", "l", "i", "e", "s", "/">>
      [] tool = "list_families" -> <<"/", "l", "i", "s", "t", "_", "f", "a", "m", "i", "l", "i",
            "e", "s", "/">>
      [] tool = "list_family_categories" -> <<"/", "l", "i", "s", "t", "_", "f", "a", "m", "i",
            "l", "y", "_", "c", "a", "t", "e", "g", "o", "r", "i", "e", "s", "/">>
      [] tool = "execute_revit_code" -> <<"/", "e", "x", "e", "c", "u", "t", "e", "_", "c", "o",
            "d", "e", "/">>
      [] tool = "get_active_selection" -> <<"/", "a", "c", "t", "i", "v", "e", "_", "s", "e", "l",
            "e", "c", "t", "i", "o", "n", "/">>
      [] tool = "inspect_selected_element" -> <<"/", "i", "n", "s", "p", "e", "c", "t", "_", "s",
            "e", "l", "e", "c", "t", "e", "d", "/">> \o py_str(a.index)
      [] tool = "inspect_element" -> <<"/", "i", "n", "s", "p", "e", "c", "t", "_", "e", "l", "e",
            "m", "e", "n", "t", "/">> \o py_str(a.element_id)
      [] tool = "get_link_status" -> <<"/", "l", "i", "n", "k", "_", "s", "t", "a", "t", "u", "s",
            "/">>
      [] tool = "quick_count" -> <<"/", "q", "u", "i", "c", "k", "_", "c", "o", "u", "n", "t", "/">>
      [] tool = "get_element_parameter" -> <<"/", "g", "e", "t", "_", "p", "a", "r", "a", "m", "e",
            "t", "e", "r", "/">>
      [] tool = "set_element_parameter" -> <<"/", "s", "e", "t", "_", "p", "a", "r", "a", "m", "e",
            "t", "e", "r", "/">>
      [] tool = "get_all_parameters" -> <<"/", "g", "e", "t", "_", "a", "l", "l", "_", "p", "a",
            "r", "a", "m", "e", "t", "e", "r", "s", "/">>
      [] tool = "set_parameters_bulk" -> <<"/", "s", "e", "t", "_", "p", "a", "r", "a", "m", "e",
            "t", "e", "r", "s", "_", "b", "u", "l", "k", "/">>
      [] tool = "set_parameters_multi_elements" -> <<"/", "s", "e", "t", "_", "p", "a", "r", "a",
            "m", "e", "t", "e", "r", "s", "_", "m", "u", "l", "t", "i", "/">>
      [] tool = "query_ifc_elements" -> <<"/", "q", "u", "e", "r", "y", "_", "i", "f", "c", "_",
            "e", "l", "e", "m", "e", "n", "t", "s", "/">>
      [] tool = "get_ifc_element_properties" -> <<"/", "g", "e", "t", "_", "i", "f", "c", "_", "e",
            "l", "e", "m", "e", "n", "t", "_", "p", "r", "o", "p", "e", "r", "t", "i", "e", "s",
            "/">>
      [] tool = "batch_update" -> <<"/", "b", "a", "t", "c", "h", "_", "u", "p", "d", "a", "t",
            "e", "/">>
      [] tool = "create_sheet" -> <<"/", "c", "r", "e", "a", "t", "e", "_", "s", "h", "e", "e",
            "t", "/">>
      [] tool = "place_view_on_sheet" -> <<"/", "p", "l", "a", "c", "e", "_", "v", "i", "e", "w",
            "_", "o", "n", "_", "s", "h", "e", "e", "t", "/">>
      [] tool = "create_walls_at_lines" -> <<"/", "c", "r", "e", "a", "t", "e", "_", "w", "a", "l",
            "l", "s", "_", "a", "t", "_", "l", "i", "n", "e", "s", "/">>
      [] tool = "batch_family_placement" -> <<"/", "b", "a", "t", "c", "h", "_", "f", "a", "m",
            "i", "l", "y", "_", "p", "l", "a", "c", "e", "m", "e", "n", "t", "/">>
      [] tool = "place_workplane_windows" -> <<"/", "p", "l", "a", "c", "e", "_", "w", "o", "r",
            "k", "p", "l", "a", "n", "e", "_", "w", "i", "n", "d", "o", "w", "s", "/">>
      [] tool = "coordinate_converter" -> <<"/", "c", "o", "o", "r", "d", "i", "n", "a", "t", "e",
            "_", "c", "o", "n", "v", "e", "r", "t", "e", "r", "/">>

(***************************************************************************)
(* Registration (tools/__init__.py)                                        *)
(***************************************************************************)
StatusToolsOrder == <<"get_revit_status", "get_revit_model_info">>

FamilyToolsOrder ==
    <<"place_family", "place_workplane_families", "list_families", "list_family_categories">>

CodeExecutionToolsOrder == <<"execute_revit_code">>

SelectionToolsOrder ==
    <<"get_active_selection", "inspect_selected_element", "inspect_element",
      "get_link_status", "quick_count">>

ParameterToolsOrder ==
    <<"get_element_parameter", "set_element_parameter", "get_all_parameters",
      "set_parameters_bulk", "set_parameters_multi_elements">>

\* register_ifc_tools, had it kept its own get_link_status
IfcToolsOrder_with_link_status ==
    <<"query_ifc_elements", "get_ifc_element_properties", "get_link_status">>

IfcToolsOrder == <<"query_ifc_elements", "get_ifc_element_properties">>

ModificationToolsOrder ==
    <<"batch_update", "create_sheet", "place_view_on_sheet", "create_walls_at_lines",
      "batch_family_placement", "place_workplane_windows", "coordinate_converter">>

\* the modules register_tools imports whose source is not part of tools/ here:
\* each stands for the tools it registers, named apart from all others as the
\* registry's invariant has them
ViewToolsOrder == <<"view_tools.*">>

ModelToolsOrder == <<"model_tools.*">>

ColorsToolsOrder == <<"colors_tools.*">>

\* the register_* calls of register_tools, in order, each with the tools it
\* registers in order
RegisterSteps ==
    <<StatusToolsOrder, ViewToolsOrder, FamilyToolsOrder, ModelToolsOrder, ColorsToolsOrder,
      CodeExecutionToolsOrder, SelectionToolsOrder, ParameterToolsOrder, IfcToolsOrder,
      ModificationToolsOrder>>

RECURSIVE Flatten(_)
\* the concatenation of the sequences of seqs
Flatten(seqs) == IF seqs = <<>> THEN <<>> ELSE Head(seqs) \o Flatten(Tail(seqs))

\* the elements of seq
Range(seq) == {seq[k] : k \in 1..Len(seq)}

\* the names registered while register_tools runs to its end
AllRegistered == Flatten(RegisterSteps)

\* the registry before register_tools
Unregistered == [pc |-> "registering", step |-> 1, names |-> <<>>]

\* the registry once register_tools has returned
Serving == [pc |-> "serving", step |-> Len(RegisterSteps) + 1, names |-> AllRegistered]

\* the registry after register(name): the name is added, or the registration
\* fails on a name that is registered already
register(reg, name) ==
    IF name \in Range(reg.names) THEN [reg EXCEPT !.pc = "failed"]
    ELSE [reg EXCEPT !.names = Append(@, name)]

RECURSIVE register_all(_, _)
\* the registry after the decorators of one register_* call, in order; the
\* first failure ends it
register_all(reg, names) ==
    IF names = <<>> \/ reg.pc = "failed" THEN reg
    ELSE register_all(register(reg, Head(names)), Tail(names))

(***************************************************************************)
(* Invocations                                                             *)
(***************************************************************************)
NumInv == 2

InvIds == 1..NumInv

\* no value yet
Nothing == [o |-> "none"]

\* an exception raised with a message
RaiseMsg(e, msg) == [o |-> "raise", e |-> e, msg |-> msg]

Idle ==
    [pc |-> "idle", tool |-> "", ctx |-> FALSE, args |-> NoArgs, path |-> <<>>,
     payload |-> NoParams, raw |-> Nothing, result |-> Nothing]

\* the tools are registered and none is running
Init ==
    /\ registry = Serving
    /\ inv = [i \in InvIds |-> Idle]
    /\ log = [i \in InvIds |-> <<>>]
    /\ calls = [i \in InvIds |-> 0]
    /\ trace = [i \in InvIds |-> <<>>]

\* the process starts: nothing is registered
InitStartup ==
    /\ registry = Unregistered
    /\ inv = [i \in InvIds |-> Idle]
    /\ log = [i \in InvIds |-> <<>>]
    /\ calls = [i \in InvIds |-> 0]
    /\ trace = [i \in InvIds |-> <<>>]

\* register_tools makes its next register_* call; after the last one the
\* tools are served
Register ==
    /\ registry.pc = "registering"
    /\ LET reg == register_all(registry, RegisterSteps[registry.step])
       IN registry' =
            IF reg.pc = "failed" THEN reg
            ELSE [reg EXCEPT !.step = @ + 1,
                             !.pc = IF registry.step = Len(RegisterSteps)
                                    THEN "serving" ELSE @]
    /\ UNCHANGED <<inv, log, calls, trace>>

\* the requests the host can make of the handlers of tools
Requests(tools) == UNION {{[tool |-> tool, args |-> a] : a \in Arguments(tool)} : tool \in tools}

\* Steps, were the transport call issued before the info log
Steps_call_first(tool, ctx) ==
    <<"payload", "call">> \o IF ctx /\ LogsInfo(tool) THEN <<"info">> ELSE <<>>

\* what the handler of tool does, in order, up to its await: the info log if it
\* has one and a context is given, the payload, the transport call
Steps(tool, ctx) ==
    LET info == IF ctx /\ LogsInfo(tool) THEN <<"info">> ELSE <<>>
    IN IF tool \in CodeExecutionTools THEN <<"payload">> \o info \o <<"call">>
       ELSE info \o <<"payload", "call">>

\* ExceptSteps, were a failed transport call issued once more
ExceptSteps_retry(tool, e, ctx) == <<"call">>

\* what the handler of tool does, in order, when its transport call raised e:
\* the error log of the except clause, if it matches and a context is given
ExceptSteps(tool, e, ctx) == IF Catches(tool, e) /\ ctx THEN <<"error">> ELSE <<>>

\* the number of occurrences of step in steps
Count(step, steps) == Cardinality({k \in 1..Len(steps) : steps[k] = step})

\* the host calls a registered tool, with or without a context: the handler
\* runs up to its await of the transport call
Invoke(i, requests) ==
    /\ registry.pc = "serving"
    /\ inv[i].pc = "idle"
    /\ \E r \in requests, ctx \in BOOLEAN :
          /\ r.tool \in Range(registry.names)
          /\ inv' = [inv EXCEPT ![i] = [pc |-> "awaiting", tool |-> r.tool, ctx |-> ctx,
                                        args |-> r.args,
                                        path |-> Path(r.tool, r.args),
                                        payload |-> Payload(r.tool, r.args),
                                        raw |-> Nothing, result |-> Nothing]]
          /\ log' = [log EXCEPT ![i] =
                        [k \in 1..Count("info", Steps(r.tool, ctx)) |->
                            [level |-> "info", tool |-> r.tool]]]
          /\ calls' = [calls EXCEPT ![i] = Count("call", Steps(r.tool, ctx))]
          /\ trace' = [trace EXCEPT ![i] = Steps(r.tool, ctx)]
    /\ UNCHANGED registry

\* TransportReturns, were the response returned as it came
TransportReturns_raw(i, responses) ==
    /\ inv[i].pc = "awaiting"
    /\ \E response \in responses :
          inv' = [inv EXCEPT ![i].pc = "done",
                             ![i].raw = Return(response),
                             ![i].result = Return(response)]
    /\ UNCHANGED <<registry, log, calls, trace>>

\* the awaited transport call returns one of responses: the handler returns
\* format_response(response), or ends with what format_response raises (an
\* AttributeError or a TypeError, which no except clause names)
TransportReturns(i, responses) ==
    /\ inv[i].pc = "awaiting"
    /\ \E response \in responses :
          inv' = [inv EXCEPT ![i].pc = "done",
                             ![i].raw = Return(response),
                             ![i].result = format_response(response)]
    /\ UNCHANGED <<registry, log, calls, trace>>

\* what the handler of tool does with exception e(msg) raised by its transport
\* call: the except clause, where there is one and it matches, returns the
\* message; otherwise the exception leaves the handler
HandlerOutcome(tool, e, msg) ==
    IF Catches(tool, e) THEN Return(PyStr(ERR_EXEC \o msg)) ELSE RaiseMsg(e, msg)

\* TransportRaises, were the error to end every pending invocation
TransportRaises_aborts_all(i, types, msg) ==
    /\ inv[i].pc = "awaiting"
    /\ \E e \in types :
          inv' = [j \in InvIds |->
                    IF inv[j].pc = "awaiting"
                    THEN [inv[j] EXCEPT !.pc = "done",
                                        !.raw = RaiseMsg(e, msg),
                                        !.result = HandlerOutcome(inv[j].tool, e, msg)]
                    ELSE inv[j]]
    /\ UNCHANGED <<registry, log, calls, trace>>

\* the awaited transport call raises an exception of one of types
TransportRaises(i, types, msg) ==
    /\ inv[i].pc = "awaiting"
    /\ \E e \in types :
          LET steps == ExceptSteps(inv[i].tool, e, inv[i].ctx)
          IN /\ inv' = [inv EXCEPT ![i].pc = "done",
                                   ![i].raw = RaiseMsg(e, msg),
                                   ![i].result = HandlerOutcome(inv[i].tool, e, msg)]
             /\ log' = [log EXCEPT ![i] =
                           @ \o [k \in 1..Count("error", steps) |->
                                    [level |-> "error", msg |-> ERR_EXEC \o msg]]]
             /\ calls' = [calls EXCEPT ![i] = @ + Count("call", steps)]
             /\ trace' = [trace EXCEPT ![i] = @ \o steps]
    /\ UNCHANGED registry

\* the host takes the outcome; nothing of the invocation is kept
Deliver(i) ==
    /\ inv[i].pc = "done"
    /\ inv' = [inv EXCEPT ![i] = Idle]
    /\ log' = [log EXCEPT ![i] = <<>>]
    /\ calls' = [calls EXCEPT ![i] = 0]
    /\ trace' = [trace EXCEPT ![i] = <<>>]
    /\ UNCHANGED registry

(***************************************************************************)
(* What the transport can answer                                           *)
(***************************************************************************)
S_boom == <<"b", "o", "o", "m">>

S_refused == <<"r", "e", "f", "u", "s", "e", "d">>

K_count == <<"c", "o", "u", "n", "t">>

K_request_id == <<"r", "e", "q", "u", "e", "s", "t", "_", "i", "d">>

D_count == PyDict(<< <<K_count, PyInt(5)>> >>)

\* the exception types a transport call can end with: the recoverable ones, a
\* timeout and a cancellation
RaisedTypes == CaughtTypes \cup {"TimeoutError", "CancelledError"}

\* a few answers of each shape
SampleResponses ==
    {D_count, PyStr(S_refused), PyDict(<< <<K_error, PyStr(S_boom)>> >>),
     PyDict(<< <<K_output, PyStr(S_boom)>> >>), PyDict(<< <<K_status, PyNone>> >>),
     PyList(<<D_count>>)}

\* every handler, with and without a context, against every kind of answer
Next ==
    \/ Invoke(1, Requests(Tools))
    \/ TransportReturns(1, SampleResponses)
    \/ TransportRaises(1, RaisedTypes, S_refused)
    \/ Deliver(1)

Spec == Init /\ [][Next]_vars

\* the process from its start: registration, then invocations
NextStartup ==
    \/ Register
    \/ Invoke(1, Requests(Tools))
    \/ TransportReturns(1, SampleResponses)
    \/ TransportRaises(1, RaisedTypes, S_refused)
    \/ Deliver(1)

SpecStartup == InitStartup /\ [][NextStartup]_vars

\* the tools of the interleaved invocations: one handler with try/except, one
\* that logs, one that does neither
ConcurrentTools == {"execute_revit_code", "place_view_on_sheet", "get_revit_status"}

\* the requests of the interleaved invocations: some with the same arguments,
\* some with other arguments of the same tool
ConcurrentRequests ==
    {r \in Requests(ConcurrentTools) :
        /\ r.tool = "execute_revit_code" => r.args.description = Defaults(r.tool).description
        /\ r.tool = "place_view_on_sheet" =>
              /\ r.args.view_id = Defaults(r.tool).view_id
              /\ r.args.view_name = Defaults(r.tool).view_name
              /\ r.args.x = Defaults(r.tool).x
              /\ (r.args.sheet_id = Defaults(r.tool).sheet_id
                     <=> r.args.sheet_number = Defaults(r.tool).sheet_number)}

\* the answers of the interleaved transport calls
ConcurrentResponses == {D_count, PyDict(<< <<K_error, PyStr(S_boom)>> >>)}

\* the errors of the interleaved transport calls: one the except clause
\* names, one it does not
ConcurrentRaised == {"ConnectionError", "TimeoutError"}

\* several invocations outstanding at once, their transport calls ending in any order
NextConcurrent ==
    \E i \in InvIds :
        \/ Invoke(i, ConcurrentRequests)
        \/ TransportReturns(i, ConcurrentResponses)
        \/ TransportRaises(i, ConcurrentRaised, S_refused)
        \/ Deliver(i)

SpecConcurrent == Init /\ [][NextConcurrent]_vars

(***************************************************************************)
(* The responses the normalizer is checked on: plain strings, a list, and  *)
(* every mapping of at most MaxKeys of the keys below, each key with a     *)
(* value of its documented type or of another JSON type                    *)
(***************************************************************************)
MaxKeys == 5

S_inner == <<"i", "n">>

S_Active == <<"A", "c", "t", "i", "v", "e">>

S_HEALTHY == <<"H", "E", "A", "L", "T", "H", "Y">>

S_idle == <<"i", "d", "l", "e">>

S_traceback == <<"t", "b", "\n", " ", "l", "2">>

\* text with a line break, a quote, a backslash and a character beyond ASCII
S_output == <<"o", "\n", " ", "\"", "\\", "U+00E9">>

S_RevitAPI == <<"R", "e", "v", "i", "t", "A", "P", "I">>

S_title == <<"T", " ", "U+00C9">>

S_abc == <<"a", "b", "c">>

D_error == PyDict(<< <<K_error, PyStr(S_inner)>> >>)

D_output == PyDict(<< <<K_output, PyStr(S_inner)>> >>)

D_status == PyDict(<< <<K_status, PyStr(S_Active)>>, <<K_health, PyStr(S_HEALTHY)>> >>)

D_wrapped == PyDict(<< <<K_data, D_count>> >>)

L_mixed ==
    PyList(<<PyInt(-12), PyStr(S_output), PyNone, PyBool(TRUE), PyDict(<<>>), PyList(<<>>),
             PyDict(<< <<S_output, PyBool(FALSE)>> >>)>>)

\* the keys a response may hold, in insertion order, each with its values
KeyValues ==
    << <<K_data, {D_count, D_error, D_output, D_status, D_wrapped, PyList(<<PyInt(1)>>)}>>,
       <<K_error, {PyStr(S_boom), PyStr(<<>>), PyNone}>>,
       <<K_traceback, {PyStr(S_traceback), PyStr(<<>>), PyInt(5)}>>,
       <<K_output, {PyStr(S_output), PyNone}>>,
       <<K_status, {PyStr(S_Active), PyStr(S_idle), PyNone}>>,
       <<K_health, {PyStr(S_HEALTHY), PyStr(S_idle), PyInt(1)}>>,
       <<K_api_name, {PyStr(S_RevitAPI), PyNone}>>,
       <<K_document_title, {PyStr(S_title)}>>,
       <<K_count, {PyInt(5), L_mixed}>>,
       <<K_request_id, {PyStr(S_abc)}>> >>

RECURSIVE ItemLists(_, _)
\* the item lists over the keys from the i-th on, of at most n items
ItemLists(i, n) ==
    IF i > Len(KeyValues) \/ n = 0 THEN {<<>>}
    ELSE ItemLists(i + 1, n)
         \cup {<< <<KeyValues[i][1], v>> >> \o rest :
                   v \in KeyValues[i][2], rest \in ItemLists(i + 1, n - 1)}

Mappings == {PyDict(kv) : kv \in ItemLists(1, MaxKeys)}

\* the text of a JSON object with an "error" member, as a plain string
S_jsonlike == <<"{", "\"", "e", "r", "r", "o", "r", "\"", ":", " ", "\"", "x", "\"", "}">>

Responses ==
    Mappings
        \cup {PyStr(S_refused), PyStr(<<>>), PyStr(S_output), PyStr(S_jsonlike),
              PyList(<<PyInt(1)>>)}

\* a handler that does nothing but normalize, against every response
NextNormalizer ==
    \/ Invoke(1, Requests({"get_revit_status"}))
    \/ TransportReturns(1, Responses)
    \/ Deliver(1)

SpecNormalizer == Init /\ [][NextNormalizer]_vars

(***************************************************************************)
(* Properties of the normalizer, checked under SpecNormalizer              *)
(***************************************************************************)
\* invocation i has ended and its transport call returned a response
Normalized(i) == inv[i].pc = "done" /\ inv[i].raw.o = "return"

\* the response the transport call of invocation i returned
Raw(i) == inv[i].raw.v

\* whether text begins with prefix
StartsWith(text, prefix) ==
    Len(text) >= Len(prefix) /\ SubSeq(text, 1, Len(prefix)) = prefix

\* whether outcome is a returned str
IsText(outcome) == outcome.o = "return" /\ outcome.v.t = "str"

\* whether outcome is a returned str whose first lines are the lines of text
HasFirstLines(outcome, text) ==
    /\ IsText(outcome)
    /\ StartsWith(outcome.v.s, text)
    /\ Len(outcome.v.s) > Len(text) => outcome.v.s[Len(text) + 1] = "\n"

\* rule 2 of the normalizer: the mapping the later rules work on
Working(r) ==
    IF \E i \in 1..Len(r.kv) :
          /\ r.kv[i][1] = K_data
          /\ r.kv[i][2].t = "dict"
          /\ Cardinality({j \in 1..Len(r.kv) : j # i}) <= 1
    THEN GetItem(r, K_data) ELSE r

\* rule 5 of the normalizer: status is "active" and health is "healthy", whatever the case
StatusShape(m) ==
    /\ HasKey(m, K_status) /\ HasKey(m, K_health)
    /\ GetItem(m, K_status).t = "str" /\ GetItem(m, K_health).t = "str"
    /\ Lower(GetItem(m, K_status).s) = S_active
    /\ Lower(GetItem(m, K_health).s) = S_healthy

\* C1: every mapping with an "error" key, whatever its other keys, is rendered as
\* the error report: the header line, then the line "Error: <error value>".
C1_ErrorPrecedence ==
    \A i \in InvIds :
        Normalized(i) /\ Raw(i).t = "dict" /\ HasKey(Raw(i), K_error) =>
            HasFirstLines(inv[i].result,
                          HDR_ERROR \o NL \o PFX_ERROR \o py_str(GetItem(Raw(i), K_error)))

\* C2: every mapping with an "output" key and no "error" key, whatever its other
\* keys and their values, is rendered as the value of "output", unmodified.
C2_OutputIdentity ==
    \A i \in InvIds :
        Normalized(i) /\ Raw(i).t = "dict" /\ HasKey(Raw(i), K_output)
                /\ ~HasKey(Raw(i), K_error) =>
            inv[i].result = Return(GetItem(Raw(i), K_output))

\* C3: a mapping whose "data" is a mapping and that has at most one other key is
\* rendered exactly as the rules after the unwrap render the inner mapping.
C3_EnvelopeTransparency ==
    \A i \in InvIds :
        Normalized(i) /\ Raw(i).t = "dict" /\ HasKey(Raw(i), K_data)
                /\ GetItem(Raw(i), K_data).t = "dict" /\ DictLen(Raw(i)) <= 2 =>
            inv[i].result = format_rules(GetItem(Raw(i), K_data))

\* the envelope {"data": {"count": 5}, "error": "boom"} was rendered as the inner
\* mapping is, the sibling "error" key notwithstanding
C3_Witness ==
    \E i \in InvIds :
        /\ Normalized(i)
        /\ Raw(i) = PyDict(<< <<K_data, D_count>>, <<K_error, PyStr(S_boom)>> >>)
        /\ inv[i].result
             = Return(PyStr(<<"{", "\n", " ", " ", "\"", "c", "o", "u", "n", "t", "\"", ":",
                              " ", "5", "\n", "}">>))

\* C4: a mapping without "error" and "output" whose status is "active" and whose
\* health is "healthy", case ignored, is rendered as the status header, the
\* status and the health as given, the API line iff "api_name" is a key, the
\* document line iff "document_title" is a key, in this order, and nothing else.
C4_StatusShape ==
    \A i \in InvIds :
        Normalized(i) /\ Raw(i).t = "dict" /\ ~HasKey(Raw(i), K_error)
                /\ ~HasKey(Raw(i), K_output) /\ StatusShape(Raw(i)) =>
            LET r == Raw(i)
                lines ==
                    <<HDR_STATUS, PFX_STATUS \o GetItem(r, K_status).s,
                      PFX_HEALTH \o GetItem(r, K_health).s>>
                    \o (IF HasKey(r, K_api_name)
                        THEN <<PFX_API \o py_str(GetItem(r, K_api_name))>> ELSE <<>>)
                    \o (IF HasKey(r, K_document_title)
                        THEN <<PFX_DOCUMENT \o py_str(GetItem(r, K_document_title))>>
                        ELSE <<>>)
            IN inv[i].result = Return(PyStr(Join(NL, lines)))

\* a status response with an API name, a document title and a further field was
\* rendered as the five lines of the status report
C4_Witness ==
    \E i \in InvIds :
        /\ Normalized(i)
        /\ Raw(i) = PyDict(<< <<K_status, PyStr(S_Active)>>, <<K_health, PyStr(S_HEALTHY)>>,
                             <<K_api_name, PyStr(S_RevitAPI)>>,
                             <<K_document_title, PyStr(S_title)>>, <<K_count, PyInt(5)>> >>)
        /\ inv[i].result
             = Return(PyStr(HDR_STATUS \o NL \o PFX_STATUS \o S_Active \o NL
                            \o PFX_HEALTH \o S_HEALTHY \o NL \o PFX_API \o S_RevitAPI \o NL
                            \o PFX_DOCUMENT \o S_title))

\* C5: a plain-string response is returned as the same string, unchanged, and no
\* rule for mappings is applied to it.
C5_PlainStringIdentity ==
    \A i \in InvIds :
        Normalized(i) /\ Raw(i).t = "str" => inv[i].result = Return(Raw(i))

\* a plain string that reads as a JSON object with an "error" member was returned
\* as it is
C5_Witness ==
    \E i \in InvIds :
        /\ Normalized(i)
        /\ Raw(i) = PyStr(S_jsonlike)
        /\ inv[i].result = Return(PyStr(S_jsonlike))

\* C6: every mapping that matches none of the error, output and status rules is
\* rendered as a serialization of the (possibly unwrapped) mapping that parses
\* back to the same keys and the same nested values.
C6_FallbackRoundTrip ==
    \A i \in InvIds :
        Normalized(i) /\ Raw(i).t = "dict" =>
            LET w == Working(Raw(i))
            IN ~HasKey(w, K_error) /\ ~HasKey(w, K_output) /\ ~StatusShape(w) =>
                   /\ IsText(inv[i].result)
                   /\ json_loads(inv[i].result.v.s) = Return(w)

\* C6, where format_response returns: what it returns for a mapping that matches
\* none of the error, output and status rules parses back to the mapping.
C6_RoundTripWhenReturned ==
    \A i \in InvIds :
        Normalized(i) /\ Raw(i).t = "dict" /\ inv[i].result.o = "return" =>
            LET w == Working(Raw(i))
            IN ~HasKey(w, K_error) /\ ~HasKey(w, K_output) /\ ~StatusShape(w) =>
                   /\ IsText(inv[i].result)
                   /\ json_loads(inv[i].result.v.s) = Return(w)

\* C10, where format_response returns: the first rule the response matches has
\* rendered it.
C10_FirstMatchWhenReturned ==
    \A i \in InvIds :
        Normalized(i) /\ Raw(i).t = "dict" /\ inv[i].result.o = "return" =>
            LET w == Working(Raw(i))
            IN CASE HasKey(w, K_error) -> HasFirstLines(inv[i].result, HDR_ERROR)
                 [] ~HasKey(w, K_error) /\ HasKey(w, K_output) ->
                      inv[i].result = Return(GetItem(w, K_output))
                 [] ~HasKey(w, K_error) /\ ~HasKey(w, K_output) /\ StatusShape(w) ->
                      HasFirstLines(inv[i].result, HDR_STATUS)
                 [] OTHER -> inv[i].result = Return(PyStr(json_dumps(w)))

\* C7: for every response, a plain string or a mapping whose values are of any
\* JSON type, format_response raises nothing and returns a str.
C7_TotalAndStringValued ==
    \A i \in InvIds : Normalized(i) => IsText(inv[i].result)

\* C10: the rules are tried in the order non-mapping, unwrap, error, output,
\* status, fallback, and the first rule a response matches renders it.
C10_FirstMatchOrder ==
    \A i \in InvIds :
        Normalized(i) =>
            IF Raw(i).t # "dict" THEN inv[i].result = Return(PyStr(py_str(Raw(i))))
            ELSE LET w == Working(Raw(i))
                 IN CASE HasKey(w, K_error) -> HasFirstLines(inv[i].result, HDR_ERROR)
                      [] ~HasKey(w, K_error) /\ HasKey(w, K_output) ->
                           inv[i].result = Return(GetItem(w, K_output))
                      [] ~HasKey(w, K_error) /\ ~HasKey(w, K_output) /\ StatusShape(w) ->
                           HasFirstLines(inv[i].result, HDR_STATUS)
                      [] OTHER -> inv[i].result = Return(PyStr(json_dumps(w)))

(***************************************************************************)
(* Properties of the handlers, checked under Spec                          *)
(***************************************************************************)
\* the number of error entries of a log
ErrorEntries(l) == Cardinality({k \in 1..Len(l) : l[k].level = "error"})

\* C8: whatever the tool, when the transport call raises ConnectionError,
\* ValueError or RuntimeError, the handler returns a plain-text description and
\* logs one error entry iff it was given a context; the error does not leave
\* the handler.
C8_FailurePolicy ==
    \A i \in InvIds :
        inv[i].pc = "done" /\ inv[i].raw.o = "raise" /\ inv[i].raw.e \in CaughtTypes =>
            /\ IsText(inv[i].result)
            /\ ErrorEntries(log[i]) = (IF inv[i].ctx THEN 1 ELSE 0)

\* C9: an invocation ends with a string result, also when its transport call
\* times out or is cancelled; no error leaves the handler.
C9_EndsWithString ==
    \A i \in InvIds :
        inv[i].pc = "done" => inv[i].result.o # "raise" /\ IsText(inv[i].result)

(***************************************************************************)
(* Properties of the registry, checked under SpecStartup                   *)
(***************************************************************************)
\* C11: after every prefix of the register_* calls of register_tools no
\* registration has failed and no name is registered twice; get_link_status is
\* registered at most once; and once register_tools has returned, every tool
\* of the registration modules is registered exactly once.
C11_RegistryNamesUnique ==
    /\ registry.pc # "failed"
    /\ \A j, k \in 1..Len(registry.names) :
          registry.names[j] = registry.names[k] => j = k
    /\ Count("get_link_status", registry.names) <= 1
    /\ registry.pc = "serving" => \A tool \in Tools : Count(tool, registry.names) = 1

\* register_tools has returned: the selection tools and the IFC tools are registered
C11_Witness ==
    /\ registry.pc = "serving"
    /\ Count("get_link_status", registry.names) = 1
    /\ "query_ifc_elements" \in Range(registry.names)

(***************************************************************************)
(* Properties of the handlers' requests and results, checked under Spec    *)
(***************************************************************************)
\* C12: whatever the tool and whatever its transport call returned, the
\* handler's outcome is that of format_response applied to the returned value,
\* and it is never the returned mapping or list itself.
C12_NormalizedResultOnly ==
    \A i \in InvIds :
        Normalized(i) =>
            /\ inv[i].result = format_response(Raw(i))
            /\ Raw(i).t # "str" => inv[i].result # Return(Raw(i))

\* a handler with a payload has returned the text of the mapping its
\* transport call returned
C12_Witness ==
    \E i \in InvIds :
        /\ Normalized(i) /\ inv[i].tool = "quick_count"
        /\ Raw(i) = D_count
        /\ inv[i].result = Return(PyStr(json_dumps(D_count)))

(***************************************************************************)
(* Further properties of the normalizer, checked under SpecNormalizer      *)
(***************************************************************************)
\* the mapping rule 2 leaves: the inner mapping of an envelope, else the mapping
Unwrapped(i) == Working(Raw(i))

\* C13: when the mapping the error rule works on has an "error" key whose value
\* is the empty string or null, the second line of the report is
\* "Error: Unknown error occurred".
C13_ErrorMessageDefault ==
    \A i \in InvIds :
        /\ Normalized(i) /\ Raw(i).t = "dict"
        /\ HasKey(Unwrapped(i), K_error)
        /\ GetItem(Unwrapped(i), K_error) \in {PyStr(<<>>), PyNone}
        => HasFirstLines(inv[i].result, HDR_ERROR \o NL \o PFX_ERROR \o MSG_UNKNOWN)

\* whether a value is neither null nor an empty string or container
NonEmpty(v) == v \notin {PyNone, PyStr(<<>>), PyList(<<>>), PyDict(<<>>)}

\* the two lines every error report begins with
ErrorLines(w) == HDR_ERROR \o NL \o PFX_ERROR \o py_str(GetItem(w, K_error))

\* the text of a traceback value
TracebackText(v) == IF v.t = "str" THEN v.s ELSE py_str(v)

\* the error report the traceback rule describes for mapping w
ExpectedErrorReport(w) ==
    IF HasKey(w, K_traceback) /\ NonEmpty(GetItem(w, K_traceback))
    THEN ErrorLines(w) \o NL \o HDR_TRACEBACK \o NL
             \o TracebackText(GetItem(w, K_traceback))
    ELSE ErrorLines(w)

\* C14: the error report is the two lines "=== ERROR ===" and "Error: <message>",
\* followed by the "=== TRACEBACK ===" header and the traceback text verbatim if
\* and only if the mapping has a "traceback" key with a non-empty value.
C14_TracebackSection ==
    \A i \in InvIds :
        Normalized(i) /\ Raw(i).t = "dict" /\ HasKey(Unwrapped(i), K_error) =>
            inv[i].result = Return(PyStr(ExpectedErrorReport(Unwrapped(i))))

\* wherever format_response returns an error report, the report has the
\* traceback section exactly when the traceback value is non-empty
C14_TracebackWhenReturned ==
    \A i \in InvIds :
        /\ Normalized(i) /\ Raw(i).t = "dict" /\ HasKey(Unwrapped(i), K_error)
        /\ inv[i].result.o = "return"
        => inv[i].result = Return(PyStr(ExpectedErrorReport(Unwrapped(i))))

(***************************************************************************)
(* Properties of the requests, checked under Spec                          *)
(***************************************************************************)
\* the handler of invocation i has built its request
Requested(i) == inv[i].pc \in {"awaiting", "done"}

\* whether some optional parameter of invocation i has its declared default
HasAbsentOptional(i) ==
    LET D == Defaults(inv[i].tool)
    IN D # NoArgs /\ \E p \in DOMAIN D : inv[i].args[p] = D[p]

\* C15: when an optional parameter is left at its declared default, the
\* payload sent to the transport has no key whose value is null.
C15_NoNullsForAbsentOptionals ==
    \A i \in InvIds :
        Requested(i) /\ HasAbsentOptional(i) /\ inv[i].payload.t = "dict" =>
            \A k \in 1..Len(inv[i].payload.kv) : inv[i].payload.kv[k][2] # PyNone

(***************************************************************************)
(* Properties of the handlers' side effects, checked under Spec            *)
(***************************************************************************)
\* C16: in every invocation at most one info entry is logged and it is logged
\* before the transport call is issued; without a context nothing is logged,
\* neither info nor error, and the transport call is issued all the same.
C16_LogBeforeDispatch ==
    \A i \in InvIds :
        Requested(i) =>
            /\ Count("info", trace[i]) <= 1
            /\ Count("info", trace[i])
                  = Cardinality({k \in 1..Len(log[i]) : log[i][k].level = "info"})
            /\ \A j, k \in 1..Len(trace[i]) :
                  trace[i][j] = "info" /\ trace[i][k] = "call" => j < k
            /\ ~inv[i].ctx =>
                  /\ log[i] = <<>>
                  /\ Count("info", trace[i]) + Count("error", trace[i]) = 0
                  /\ Count("call", trace[i]) >= 1

\* a handler given a context has logged, issued its transport call and, the
\* call having raised, logged the error
C16_Witness ==
    \E i \in InvIds :
        /\ inv[i].pc = "done" /\ inv[i].ctx
        /\ trace[i] = <<"payload", "info", "call", "error">>

\* C17: every invocation issues exactly one transport call, whether the call
\* is pending, has returned a mapping or a failure string, or has raised; no
\* call is reissued and no invocation goes without its call.
C17_NoRetry ==
    \A i \in InvIds :
        Requested(i) => calls[i] = 1 /\ Count("call", trace[i]) = 1

\* a transport call has raised and its handler has ended
C17_Witness ==
    \E i \in InvIds :
        /\ inv[i].pc = "done" /\ inv[i].raw.o = "raise"
        /\ inv[i].tool = "list_families" /\ calls[i] = 1

(***************************************************************************)
(* Properties of interleaved invocations, checked under SpecConcurrent     *)
(***************************************************************************)
\* the outcome the handler of invocation i owes to its own transport outcome
OwnOutcome(i) ==
    IF inv[i].raw.o = "return" THEN format_response(inv[i].raw.v)
    ELSE HandlerOutcome(inv[i].tool, inv[i].raw.e, inv[i].raw.msg)

\* everything the model keeps of invocation i
Slot(i) == <<inv[i], log[i], calls[i], trace[i]>>

\* the request and the outcome of every invocation are those of its own
\* arguments and its own transport outcome
OwnRequestAndOutcome ==
    \A i \in InvIds :
        /\ Requested(i) =>
              /\ inv[i].payload = Payload(inv[i].tool, inv[i].args)
              /\ inv[i].path = Path(inv[i].tool, inv[i].args)
        /\ inv[i].pc = "awaiting" => inv[i].result = Nothing
        /\ inv[i].pc = "done" => inv[i].result = OwnOutcome(i)

\* a step of one invocation leaves every other invocation as it was
OthersUntouched ==
    \A i, j \in InvIds : i # j /\ Slot(i)' # Slot(i) => Slot(j)' = Slot(j)

\* C18: with several invocations outstanding and their transport calls ending
\* in any order, each invocation's payload and outcome depend on its own
\* arguments and its own transport outcome only, and no step of one invocation,
\* a failure included, changes the payload, the result or the completion of
\* another.
C18_InvocationIndependence == []OwnRequestAndOutcome /\ [][OthersUntouched]_vars

\* one invocation has failed while another, outstanding at the same time, has
\* ended with its own result
C18_Witness ==
    \E i, j \in InvIds :
        /\ i # j
        /\ inv[i].pc = "done" /\ inv[i].raw.o = "raise" /\ inv[i].result.o = "raise"
        /\ inv[j].pc = "done" /\ inv[j].result = Return(PyStr(json_dumps(D_count)))

NotAnEnvelope(r) ==
    /\ r.t = "dict" /\ HasKey(r, K_data)
    /\ GetItem(r, K_data).t # "dict" \/ DictLen(r) - 1 >= 2

\* C20: a mapping whose "data" is not a mapping, or that has two or more keys
\* besides "data", is not unwrapped: the outcome is that of the error, output,
\* status and fallback rules on the mapping itself, so a report that is
\* returned for an outer "error" key is the report of the outer error.
C20_UnwrapConditionExact ==
    \A i \in InvIds :
        Normalized(i) /\ NotAnEnvelope(Raw(i)) =>
            /\ inv[i].result = format_rules(Raw(i))
            /\ HasKey(Raw(i), K_error) /\ inv[i].result.o = "return" =>
                  HasFirstLines(inv[i].result, ErrorLines(Raw(i)))

\* a mapping with "data" holding a mapping and two more keys has been rendered
\* by the fallback rule, "data" inside the serialization
C20_Witness ==
    \E i \in InvIds :
        /\ Normalized(i) /\ NotAnEnvelope(Raw(i))
        /\ GetItem(Raw(i), K_data) = D_error
        /\ DictLen(Raw(i)) = 3
        /\ inv[i].result = Return(PyStr(json_dumps(Raw(i))))

\* an envelope whose inner mapping has itself a "data" key holding a mapping
DoublyWrapped(r) ==
    /\ r.t = "dict" /\ Working(r) # r
    /\ HasKey(Working(r), K_data)
    /\ GetItem(Working(r), K_data).t = "dict"

\* C21: the envelope is unwrapped once only: when the inner mapping of an
\* envelope has itself a "data" key holding a mapping, the outcome is that of
\* the error, output, status and fallback rules on the inner mapping as it
\* stands; for the inner mapping {"data": {"count": 5}} it is the serialization
\* of that mapping, which is not what format_response gives for {"count": 5}.
C21_UnwrapOnce ==
    \A i \in InvIds :
        Normalized(i) /\ DoublyWrapped(Raw(i)) =>
            /\ inv[i].result = format_rules(GetItem(Raw(i), K_data))
            /\ GetItem(Raw(i), K_data) = D_wrapped =>
                  /\ inv[i].result = Return(PyStr(json_dumps(D_wrapped)))
                  /\ inv[i].result # format_response(D_count)

\* a doubly wrapped response with a sibling key has been rendered, and the
\* outcome differs from that of its innermost mapping
C21_Witness ==
    \E i \in InvIds :
        /\ Normalized(i) /\ DoublyWrapped(Raw(i))
        /\ DictLen(Raw(i)) = 2
        /\ GetItem(Raw(i), K_data) = D_wrapped
        /\ inv[i].result # format_response(GetItem(D_wrapped, K_data))

====
